---- MODULE Spec2Model ----
(***************************************************************************)
(* A model of quadfeather's ingester (src/quadfeather/ingester.py): the    *)
(* dispatcher get_ingester, the three Ingester subclasses with their       *)
(* batches() readers, and the byte-budgeted accumulation loop              *)
(* Ingester.__iter__.                                                      *)
(*                                                                         *)
(* A source file is a suffix and a finite sequence of native record        *)
(* batches; a batch is named <<file, index>> and has the byte size the     *)
(* file gives it.  A generator obtained from iter(ingester) advances one   *)
(* step of its loop at a time; the states with pc = "yielded", "final",    *)
(* "created", "done" and "error" are the ones where control is with the    *)
(* caller.                                                                 *)
(***************************************************************************)
EXTENDS Integers, Sequences, FiniteSets, TLC

\* ------------------------------------------------------------ bounds ----
\* files of a run, batches of a run (over all its files), byte size of a big
\* batch, largest budget tried, generators obtained from one Ingester, and the
\* byte size of a batch in the scenario of three files
MaxFiles == 2
MaxBatches == 3
MaxBytes == 2
MaxBudget == 3
MaxIter == 2
ScenarioBytes == 1

\* ------------------------------------------------- program constants ----
DefaultBatchSize == 1024 * 1024 * 1024

SupportedSuffixes == {".parquet", ".feather", ".arrow"}
AllSuffixes == SupportedSuffixes \cup {".csv"}
Classes == {"ParquetIngester", "FeatherIngester", "ArrowIngester"}

\* columns=None, or a list of column names
None == [given |-> FALSE, names |-> <<>>]
ColumnChoices == {None, [given |-> TRUE, names |-> <<"x">>]}

Gens == 1..MaxIter

\* ----------------------------------------------------------- helpers ----
RECURSIVE SeqsUpTo(_, _)
SeqsUpTo(S, n) ==
    IF n = 0 THEN {<<>>}
    ELSE LET shorter == SeqsUpTo(S, n - 1)
         IN  shorter \cup {Append(s, x) : s \in {t \in shorter : Len(t) = n - 1}, x \in S}

RECURSIVE Flatten(_)
Flatten(ss) == IF ss = <<>> THEN <<>> ELSE Head(ss) \o Flatten(Tail(ss))

Range(s) == {s[i] : i \in 1..Len(s)}

\* a native batch is small (1 byte) or big (MaxBytes bytes)
BatchSizes == {1, MaxBytes}

\* the lists of at most n files with at most t batches in all: each file has a
\* suffix and the byte sizes of its native batches
RECURSIVE FileLists(_, _)
FileLists(n, t) ==
    IF n = 0 THEN {<<>>}
    ELSE {<<>>} \cup
         UNION {{<<[suffix |-> sfx, batches |-> c]>> \o rest :
                    sfx \in AllSuffixes, rest \in FileLists(n - 1, t - Len(c))} :
                c \in SeqsUpTo(BatchSizes, t)}

VARIABLES
    files,          \* the files on storage as created: <<[suffix, batches], ...>>
    call,           \* the entry point the caller used and its arguments, or "none"
    exists,         \* exists[f]: file f is still on storage
    ingester,       \* class of the constructed Ingester, or "none"
    raised,         \* what get_ingester raised, or "none"
    self_files,     \* self.files: the paths (file numbers) in the held order
    queue,          \* self.queue
    columns,        \* self.columns
    batch_size,     \* self.batch_size
    destructive,    \* self.destructive
    pc,             \* pc[g]: where generator g of __iter__ stands
    fi,             \* fi[g]: position in self.files of the reader of g
    bi,             \* bi[g]: batches of the current file already yielded to g
    rd,             \* rd[g]: "idle" between files, "reading" inside one
    queue_length,   \* queue_length[g]: the local byte counter of g
    out,            \* out[g]: the tables g emitted, each the list of its batches
    err,            \* err[g]: the exception that ended g, or "none"
    opened,         \* files some reader has opened so far
    handles,        \* handles[g]: files whose handle the reader of g holds open
    loaded,         \* batches read from storage so far
    read_schema     \* read_schema[f]: the columns file f was last read with

vars == <<files, call, exists, ingester, raised, self_files, queue, columns, batch_size,
          destructive, pc, fi, bi, rd, queue_length, out, err, opened,
          handles, loaded, read_schema>>

world == <<files, call, ingester, raised, self_files, columns, batch_size, destructive>>

io == <<opened, handles, loaded, read_schema>>

\* -------------------------------------------------- pure definitions ----
nbytes(batch) == files[batch[1]].batches[batch[2]]

RECURSIVE SumBytes(_)
SumBytes(bs) == IF bs = <<>> THEN 0 ELSE nbytes(Head(bs)) + SumBytes(Tail(bs))

\* ingester.py:100  suffixes = list(set([f.suffix for f in files]))
Suffixes(fs) == {fs[i].suffix : i \in 1..Len(fs)}

\* ingester.py:102  assert len(suffixes) == 1
\* (SameTypeLoose: the assertion written as "at least one suffix")
SameTypeLoose(suffixes) == Cardinality(suffixes) >= 1
SameType(suffixes) == Cardinality(suffixes) = 1

\* ingester.py:105-112  the class chosen for a suffix, "none" when unsupported
\* (IngesterClassSwapped: the parquet and feather branches exchanged)
IngesterClassSwapped(suffix) ==
    CASE suffix = ".parquet" -> "FeatherIngester"
      [] suffix = ".feather" -> "ParquetIngester"
      [] suffix = ".arrow" -> "ArrowIngester"
      [] OTHER -> "none"
IngesterClass(suffix) ==
    CASE suffix = ".parquet" -> "ParquetIngester"
      [] suffix = ".feather" -> "FeatherIngester"
      [] suffix = ".arrow" -> "ArrowIngester"
      [] OTHER -> "none"

\* the suffix a reader class reads
ClassSuffix(cls) ==
    CASE cls = "ParquetIngester" -> ".parquet"
      [] cls = "FeatherIngester" -> ".feather"
      [] cls = "ArrowIngester" -> ".arrow"

\* ingester.py:18  self.files = files (the caller's list, as given)
HeldFiles(n) == [i \in 1..n |-> i]

\* ingester.py:27  self.queue.append(batch)
\* (QueuePrepend: the batch inserted at the front instead)
QueuePrepend(q, batch) == <<batch>> \o q
QueueAppend(q, batch) == Append(q, batch)

\* ingester.py:29  if queue_length > self.batch_size
\* (FlushAtLeast: the comparison written as >=; FlushLate: off by one upwards)
FlushAtLeast(ql, budget) == ql >= budget
FlushLate(ql, budget) == ql > budget + 1
ShouldFlush(ql, budget) == ql > budget

\* ingester.py:33  queue_length = 0
\* (KeepCounter: the reset left out)
KeepCounter(ql) == ql
ResetCounter(ql) == 0

\* ingester.py:53  range(fin.num_record_batches): the batches a reader yields of file f
\* (NumBatchesShort: the range one short, the last batch never read)
NumBatchesShort(f) == IF Len(files[f].batches) > 0 THEN Len(files[f].batches) - 1 ELSE 0
NumBatches(f) == Len(files[f].batches)

\* ingester.py:56, 75, 89  what the unlink statement of each reader does:
\* ArrowIngester calls Path.unlink on the path; FeatherIngester calls unlink on
\* the pyarrow Table and ParquetIngester on the ParquetFile, which have no such
\* attribute.
UnlinkOutcome(cls, present) ==
    CASE cls = "ArrowIngester" -> IF present THEN "deleted" ELSE "FileNotFoundError"
      [] OTHER -> "AttributeError"

\* ingester.py:34  if len(self.queue) > 0
\* (AlwaysResidual: the final flush made unconditional)
AlwaysResidual(q) == TRUE
HasResidual(q) == Len(q) > 0

\* demo.py:33-39  the columns of the files the repository writes
SourceSchema == <<"x", "y", "class", "quantity", "date">>

\* ingester.py:51, 71, 86  whether the reader of a class takes self.columns:
\* feather.read_table and ParquetFile.iter_batches take column names;
\* IpcReadOptions(included_fields=...) takes None or field numbers, and a list
\* of names raises TypeError
ReaderAccepts(cls, cols) == cls = "ArrowIngester" => ~cols.given

\* ingester.py:51, 71, 86  the columns of the batches read with self.columns
ReadColumns(cols) == IF cols.given THEN cols.names ELSE SourceSchema

\* ingester.py:71  feather.read_table reads the whole file into one table and
\* closes it; the other two readers keep the file open and read batch by batch
LoadsWholeFile(cls) == cls = "FeatherIngester"

\* ingester.py:84-86  the loop variable f, rebound by the for statement, is the
\* only reference to the ParquetFile, so its handle goes when the file is done;
\* ingester.py:48-52  source and fin keep the arrow file until they are rebound
\* for the next file or batches() returns: the with block closes nothing
ReleasedAtFileEnd(cls) == cls = "ParquetIngester"

\* ingester.py:47-56  the unlink follows the loop over the batches and is in no
\* finally clause: a failed read deletes nothing
\* (DeletesOnFailureFinally: the unlink moved into a finally clause)
DeletesOnFailureFinally(destr) == destr
DeletesOnFailure(destr) == FALSE

\* ingester.py:26-36  __iter__ catches nothing: an exception of the reader ends
\* the generator with the tables emitted so far and nothing more
\* (OnErrorFlush: the pending batches emitted in a finally clause)
OnErrorFlush(tables, q) == IF q # <<>> THEN Append(tables, q) ELSE tables
OnError(tables, q) == tables

NoneRunning == \A g \in Gens : pc[g] # "running"
Started == Cardinality({g \in Gens : pc[g] # "unborn"})

\* -------------------------------------------------------------- Init ----
\* nothing is built yet: every file is on storage, no call was made
Fresh ==
    /\ call = [fn |-> "none", destructive |-> FALSE, columns |-> None]
    /\ exists = [f \in 1..Len(files) |-> TRUE]
    /\ ingester = "none"
    /\ raised = "none"
    /\ self_files = <<>>
    /\ queue = <<>>
    /\ columns = None
    /\ batch_size = 0
    /\ destructive = FALSE
    /\ pc = [g \in Gens |-> "unborn"]
    /\ fi = [g \in Gens |-> 1]
    /\ bi = [g \in Gens |-> 0]
    /\ rd = [g \in Gens |-> "idle"]
    /\ queue_length = [g \in Gens |-> 0]
    /\ out = [g \in Gens |-> <<>>]
    /\ err = [g \in Gens |-> "none"]
    /\ opened = {}
    /\ handles = [g \in Gens |-> {}]
    /\ loaded = {}
    /\ read_schema = [f \in 1..Len(files) |-> <<>>]

Init ==
    /\ files \in FileLists(MaxFiles, MaxBatches)
    /\ Fresh

\* ------------------------------------------------------- construction ----
\* Ingester.__init__ (ingester.py:9-22)
NewIngester(cls, budget, cols, destr) ==
    /\ ingester' = cls
    /\ self_files' = HeldFiles(Len(files))
    /\ queue' = <<>>
    /\ columns' = cols
    /\ batch_size' = budget
    /\ destructive' = destr

\* get_ingester(files, destructive, columns) (ingester.py:92-112)
GetIngester(destr, cols) ==
    /\ ingester = "none" /\ raised = "none"
    /\ call' = [fn |-> "get_ingester", destructive |-> destr, columns |-> cols]
    /\ LET suffixes == Suffixes(files)
       IN  IF ~SameType(suffixes)
           THEN /\ raised' = "AssertionError: All files must be of the same type"
                /\ UNCHANGED <<ingester, self_files, queue, columns, batch_size, destructive>>
           ELSE LET suffix == CHOOSE s \in suffixes : TRUE
                IN  IF IngesterClass(suffix) = "none"
                    THEN /\ raised' = "Exception: Unsupported file type"
                         /\ UNCHANGED <<ingester, self_files, queue, columns,
                                        batch_size, destructive>>
                    ELSE /\ NewIngester(IngesterClass(suffix), DefaultBatchSize, cols, destr)
                         /\ UNCHANGED raised
    /\ UNCHANGED <<files, exists, pc, fi, bi, rd, queue_length, out, err, io>>

\* a reader class constructed directly on files of its own format, with a budget
Construct(cls, budget, destr, cols) ==
    /\ ingester = "none" /\ raised = "none"
    /\ \A i \in 1..Len(files) : files[i].suffix = ClassSuffix(cls)
    /\ call' = [fn |-> cls, destructive |-> destr, columns |-> cols]
    /\ NewIngester(cls, budget, cols, destr)
    /\ UNCHANGED <<files, exists, raised, pc, fi, bi, rd, queue_length, out, err, io>>

\* --------------------------------------------------------- iteration ----
\* iter(ingester): a new generator of __iter__; its body has not run yet
Start(g) ==
    /\ ingester # "none"
    /\ pc[g] = "unborn"
    /\ g = Started + 1
    /\ NoneRunning
    /\ pc' = [pc EXCEPT ![g] = "created"]
    /\ UNCHANGED <<world, exists, queue, fi, bi, rd, queue_length, out, err, io>>

\* next(generator): the caller pulls; the generator runs on from where it stood
Pull(g) ==
    /\ NoneRunning
    /\ pc[g] \in {"created", "yielded", "final"}
    /\ CASE pc[g] = "created" ->
              \* ingester.py:25-26
              /\ queue_length' = [queue_length EXCEPT ![g] = 0]
              /\ pc' = [pc EXCEPT ![g] = "running"]
              /\ UNCHANGED queue
         [] pc[g] = "yielded" ->
              \* ingester.py:32-33
              /\ queue' = <<>>
              /\ queue_length' = [queue_length EXCEPT ![g] = ResetCounter(queue_length[g])]
              /\ pc' = [pc EXCEPT ![g] = "running"]
         [] pc[g] = "final" ->
              \* after ingester.py:36 the generator returns
              /\ pc' = [pc EXCEPT ![g] = "done"]
              /\ UNCHANGED <<queue, queue_length>>
    /\ UNCHANGED <<world, exists, fi, bi, rd, out, err, io>>

\* batches(): the reader opens the next file of self.files
\* (ingester.py:47-52, 70-71, 84-85)
OpenFile(g) ==
    /\ pc[g] = "running" /\ rd[g] = "idle" /\ fi[g] <= Len(self_files)
    /\ LET f == self_files[fi[g]]
       IN  CASE ~exists[f] ->
                  /\ pc' = [pc EXCEPT ![g] = "error"]
                  /\ err' = [err EXCEPT ![g] = "FileNotFoundError"]
                  /\ UNCHANGED <<rd, bi, io>>
             [] exists[f] /\ ~ReaderAccepts(ingester, columns) ->
                  \* ingester.py:48 has opened the file when line 51 raises
                  /\ pc' = [pc EXCEPT ![g] = "error"]
                  /\ err' = [err EXCEPT ![g] = "TypeError"]
                  /\ opened' = opened \cup {f}
                  /\ handles' = [handles EXCEPT ![g] = handles[g] \cup {f}]
                  /\ UNCHANGED <<rd, bi, loaded, read_schema>>
             [] exists[f] /\ ReaderAccepts(ingester, columns) ->
                  /\ rd' = [rd EXCEPT ![g] = "reading"]
                  /\ bi' = [bi EXCEPT ![g] = 0]
                  /\ opened' = opened \cup {f}
                  /\ handles' = [handles EXCEPT ![g] =
                                    IF LoadsWholeFile(ingester) THEN {} ELSE {f}]
                  /\ loaded' = IF LoadsWholeFile(ingester)
                                THEN loaded \cup {<<f, b>> : b \in 1..Len(files[f].batches)}
                                ELSE loaded
                  /\ read_schema' = [read_schema EXCEPT ![f] = ReadColumns(columns)]
                  /\ UNCHANGED <<pc, err>>
    /\ UNCHANGED <<world, exists, queue, fi, queue_length, out>>

\* batches() yields the next batch of the open file and __iter__ takes it
\* (ingester.py:53-54, 72-73, 86-87, then 27-31)
NextBatch(g) ==
    /\ pc[g] = "running" /\ rd[g] = "reading"
    /\ bi[g] < NumBatches(self_files[fi[g]])
    /\ LET batch == <<self_files[fi[g]], bi[g] + 1>>
           q == QueueAppend(queue, batch)
           ql == queue_length[g] + nbytes(batch)
       IN  /\ bi' = [bi EXCEPT ![g] = bi[g] + 1]
           /\ queue' = q
           /\ queue_length' = [queue_length EXCEPT ![g] = ql]
           /\ IF ShouldFlush(ql, batch_size)
              THEN /\ out' = [out EXCEPT ![g] = Append(out[g], q)]
                   /\ pc' = [pc EXCEPT ![g] = "yielded"]
              ELSE UNCHANGED <<out, pc>>
           /\ loaded' = loaded \cup {batch}
    /\ UNCHANGED <<world, exists, fi, rd, err, opened, handles, read_schema>>

\* batches(): the open file has no more batches; destructive mode unlinks
\* (ingester.py:55-56, 74-75, 88-89)
EndFile(g) ==
    /\ pc[g] = "running" /\ rd[g] = "reading"
    /\ bi[g] >= NumBatches(self_files[fi[g]])
    /\ LET f == self_files[fi[g]]
           outcome == IF destructive THEN UnlinkOutcome(ingester, exists[f]) ELSE "kept"
       IN  /\ rd' = [rd EXCEPT ![g] = "idle"]
           /\ exists' = IF outcome = "deleted" THEN [exists EXCEPT ![f] = FALSE] ELSE exists
           /\ IF outcome \in {"kept", "deleted"}
              THEN /\ fi' = [fi EXCEPT ![g] = fi[g] + 1]
                   /\ UNCHANGED <<pc, err>>
              ELSE /\ pc' = [pc EXCEPT ![g] = "error"]
                   /\ err' = [err EXCEPT ![g] = outcome]
                   /\ UNCHANGED fi
           /\ handles' = IF ReleasedAtFileEnd(ingester) /\ outcome = "kept"
                          THEN [handles EXCEPT ![g] = {}]
                          ELSE handles
    /\ UNCHANGED <<world, queue, bi, queue_length, out, opened, loaded, read_schema>>

\* batches() is exhausted: the loop of __iter__ ends (ingester.py:34-36)
Finish(g) ==
    /\ pc[g] = "running" /\ rd[g] = "idle" /\ fi[g] > Len(self_files)
    /\ IF HasResidual(queue)
       THEN /\ out' = [out EXCEPT ![g] = Append(out[g], queue)]
            /\ pc' = [pc EXCEPT ![g] = "final"]
       ELSE /\ pc' = [pc EXCEPT ![g] = "done"]
            /\ UNCHANGED out
    \* batches() has returned: its frame, with source and fin, is released
    /\ handles' = [handles EXCEPT ![g] = {}]
    /\ UNCHANGED <<world, exists, queue, fi, bi, rd, queue_length, err, opened,
                   loaded, read_schema>>

\* the reader fails on a file that cannot be opened or decoded: opening the
\* next file (ingester.py:48-52, 71, 85) or, for the readers that decode batch
\* by batch, reading its next batch (ingester.py:54, 86) raises
Fail(g) ==
    /\ pc[g] = "running" /\ fi[g] <= Len(self_files)
    /\ LET f == self_files[fi[g]]
       IN  /\ \/ rd[g] = "idle" /\ exists[f]
              \/ /\ rd[g] = "reading" /\ bi[g] < NumBatches(f)
                 /\ ~LoadsWholeFile(ingester)
           /\ opened' = opened \cup {f}
           /\ handles' = [handles EXCEPT ![g] =
                             IF ingester = "ArrowIngester" THEN handles[g] \cup {f}
                             ELSE handles[g]]
           /\ exists' = IF DeletesOnFailure(destructive)
                         THEN [exists EXCEPT ![f] = FALSE] ELSE exists
    /\ pc' = [pc EXCEPT ![g] = "error"]
    /\ err' = [err EXCEPT ![g] = "UnreadableFile"]
    /\ out' = [out EXCEPT ![g] = OnError(out[g], queue)]
    /\ UNCHANGED <<world, queue, fi, bi, rd, queue_length, loaded, read_schema>>

Step(g) == Pull(g) \/ OpenFile(g) \/ NextBatch(g) \/ EndFile(g) \/ Finish(g)

\* ------------------------------------------------------ specifications ----
Build ==
    \/ \E destr \in BOOLEAN, cols \in ColumnChoices : GetIngester(destr, cols)
    \/ \E cls \in Classes, budget \in 1..MaxBudget, destr \in BOOLEAN, cols \in ColumnChoices :
          Construct(cls, budget, destr, cols)

\* one ingestion run: an Ingester is built and iterated once
Next ==
    \/ Build
    \/ Start(1)
    \/ Step(1)

Spec == Init /\ [][Next]_vars

\* one Ingester iterated again and again: a new generator may be started whenever
\* control is with the caller, after the earlier one ended or was abandoned
\* part-way; only the latest generator is pulled
PullLatest(g) == g = Started /\ Pull(g)

NextReuse ==
    \/ Build
    \/ \E g \in Gens : Start(g)
    \/ \E g \in Gens : PullLatest(g)
    \/ \E g \in Gens : OpenFile(g) \/ NextBatch(g) \/ EndFile(g) \/ Finish(g)

SpecReuse == Init /\ [][NextReuse]_vars

\* one ingestion run in which a file may turn out unreadable
NextFail ==
    \/ Next
    \/ Fail(1)

SpecFail == Init /\ [][NextFail]_vars

\* one ingestion run whose caller keeps pulling
SpecFair == Init /\ [][Next]_vars /\ WF_vars(Next)

\* generators of one Ingester pulled in any interleaving
NextInterleaved ==
    \/ Build
    \/ \E g \in Gens : Start(g)
    \/ \E g \in Gens : Step(g)

SpecInterleaved == Init /\ [][NextInterleaved]_vars

\* the scenario of the spec: three files of 100, 50 and 10 batches, every batch
\* of the same byte size, and a budget of twice that size
ScenarioCounts == <<100, 50, 10>>
ScenarioBudget == 2 * ScenarioBytes

InitScenario ==
    /\ \E sfx \in SupportedSuffixes :
          files = [i \in 1..Len(ScenarioCounts) |->
                     [suffix |-> sfx,
                      batches |-> [b \in 1..ScenarioCounts[i] |-> ScenarioBytes]]]
    /\ Fresh

NextScenario ==
    \/ \E cls \in Classes, destr \in BOOLEAN, cols \in ColumnChoices :
          Construct(cls, ScenarioBudget, destr, cols)
    \/ Start(1)
    \/ Step(1)

SpecScenario == InitScenario /\ [][NextScenario]_vars

\* ------------------------------------------------------------ claims ----
\* the native batches of file f in the file's order
BatchesOf(f) == [b \in 1..Len(files[f].batches) |-> <<f, b>>]

\* the native batches of file 1, then file 2, ... in input order
NativeBatches == Flatten([f \in 1..Len(files) |-> BatchesOf(f)])

\* table k of generator g is not the table of the final flush
BudgetFlush(g, k) == k < Len(out[g]) \/ pc[g] \notin {"final", "done"}

\* batch b was handed to the accumulator: it is pending or in an emitted table
Handed(b) ==
    \/ b \in Range(queue)
    \/ \E g \in Gens : \E k \in 1..Len(out[g]) : b \in Range(out[g][k])

AllFilesEmpty == \A f \in 1..Len(files) : files[f].batches = <<>>

\* C1: when an iteration has been consumed to its end, the batches of the
\* emitted tables, concatenated in emission order, are the native batches of
\* file 1, file 2, ... in input order, each exactly once.
C1_RoundTrip == pc[1] = "done" => Flatten(out[1]) = NativeBatches

\* a finished run over two non-empty files that emitted at least two tables
C1_Witness ==
    /\ pc[1] = "done" /\ Len(out[1]) >= 2
    /\ Len(files) = 2 /\ \A f \in 1..2 : Len(files[f].batches) >= 1

\* C2: every emitted table other than the one of the final flush has a byte
\* size of at least the budget.
C2_BudgetReached ==
    ingester # "none" =>
        \A k \in 1..Len(out[1]) :
            BudgetFlush(1, k) => SumBytes(out[1][k]) >= batch_size

\* a finished run with a budget flush and a final table below the budget
C2_Witness ==
    /\ pc[1] = "done" /\ Len(out[1]) >= 2
    /\ SumBytes(out[1][Len(out[1])]) < batch_size
    /\ Len(out[1][1]) >= 2

\* C3: once the output of a destructive Ingester of any format has been
\* consumed to the end, the run ended without an error and no source file
\* exists any more (stated for runs without a column projection).
C3_DestructiveDeletesAll ==
    (destructive /\ ~columns.given /\ pc[1] \in {"done", "error"}) =>
        (pc[1] = "done" /\ \A f \in 1..Len(files) : ~exists[f])

\* C4: a deleted file has had every one of its batches handed to the
\* accumulator; a file with a batch not yet pulled still exists.
C4_DeleteAfterLastBatch ==
    \A f \in 1..Len(files) :
        ~exists[f] => \A b \in 1..Len(files[f].batches) : Handed(<<f, b>>)

\* a file of two batches was deleted while the run is still reading
C4_Witness ==
    /\ pc[1] = "running"
    /\ Len(files) = 2 /\ Len(files[1].batches) = 2 /\ Len(files[2].batches) >= 1
    /\ ~exists[1] /\ exists[2] /\ bi[1] = 0

\* C5: whenever a generator's accumulation loop is active, the byte sizes of the
\* batches in self.queue sum to that loop's queue_length, also for a generator
\* started after an earlier one was consumed or abandoned.
C5_CounterMatchesQueue ==
    \A g \in Gens :
        (g = Started /\ pc[g] \in {"running", "yielded", "final"}) =>
            SumBytes(queue) = queue_length[g]

\* C6: whenever control is with the caller after a table was emitted, and in
\* the drained state after the final flush, self.queue is empty.
C6_QueueEmptyAtBoundary ==
    (pc[1] \in {"yielded", "final", "done"} /\ Len(out[1]) > 0) => queue = <<>>

\* C7: with two or more distinct suffixes get_ingester fails with the
\* same-type assertion, no Ingester is constructed and no file is opened.
C7_MixedFormats ==
    Cardinality(Suffixes(files)) >= 2 =>
        /\ ingester = "none"
        /\ opened = {}
        /\ call.fn = "get_ingester" =>
               raised = "AssertionError: All files must be of the same type"

\* get_ingester was called on a supported and an unsupported suffix and failed
C7_Witness ==
    /\ call.fn = "get_ingester"
    /\ Suffixes(files) = {".csv", ".arrow"}
    /\ raised = "AssertionError: All files must be of the same type"

\* C8: on a non-empty list of one shared suffix get_ingester returns the class
\* of that suffix holding the files in the caller's order, the destructive flag
\* and the columns; any other suffix fails as unsupported with no file opened.
C8_Dispatch ==
    (call.fn = "get_ingester" /\ Len(files) > 0 /\ Cardinality(Suffixes(files)) = 1) =>
        LET suffix == files[1].suffix
        IN  IF suffix \in SupportedSuffixes
            THEN /\ raised = "none"
                 /\ suffix = ".parquet" => ingester = "ParquetIngester"
                 /\ suffix = ".feather" => ingester = "FeatherIngester"
                 /\ suffix = ".arrow" => ingester = "ArrowIngester"
                 /\ self_files = [i \in 1..Len(files) |-> i]
                 /\ destructive = call.destructive
                 /\ columns = call.columns
            ELSE /\ raised = "Exception: Unsupported file type"
                 /\ ingester = "none"
                 /\ opened = {}

\* get_ingester returned a destructive FeatherIngester with columns on two files
C8_Witness ==
    /\ call.fn = "get_ingester" /\ ingester = "FeatherIngester"
    /\ Len(self_files) = 2 /\ destructive /\ columns.given

\* C9 (as claimed): in the scenario every emitted table except possibly the
\* last holds exactly 2 consecutive batches.
C9_FlushEveryTwo ==
    \A k \in 1..Len(out[1]) : BudgetFlush(1, k) => Len(out[1][k]) = 2

\* C9 (amended): in the scenario every emitted table except the last holds
\* exactly 3 consecutive batches, the flush coming with the first batch that
\* takes the counter above the budget, and the last flush holds the remaining
\* batches, all of file 3.
C9_FlushEveryThree ==
    /\ \A k \in 1..Len(out[1]) :
          BudgetFlush(1, k) => out[1][k] = SubSeq(NativeBatches, 3 * k - 2, 3 * k)
    /\ pc[1] = "done" =>
          LET n == Len(out[1])
          IN  /\ n > 0
              /\ out[1][n] = SubSeq(NativeBatches, 3 * n - 2, Len(NativeBatches))
              /\ \A i \in 1..Len(out[1][n]) : out[1][n][i][1] = 3

\* the scenario ran to its end; a table that spans files 1 and 2 was emitted
C9_Witness ==
    /\ pc[1] = "done"
    /\ \E k \in 1..Len(out[1]) : out[1][k][1][1] = 1 /\ out[1][k][2][1] = 2

\* C10: when every source file has zero batches, the iteration emits no table
\* and ends normally, without an error (stated for runs without a column
\* projection).
C10_EmptyInput ==
    (AllFilesEmpty /\ ingester # "none" /\ ~columns.given) =>
        /\ out[1] = <<>>
        /\ pc[1] # "error"

\* s is an initial part of t
IsPrefix(s, t) == Len(s) <= Len(t) /\ SubSeq(t, 1, Len(s)) = s

\* the tables a run without any error emits for the batches rest, given the
\* pending batches and the tables emitted before them: a table closes with the
\* first batch that takes its byte size above the budget, and a non-empty rest
\* is the final table
RECURSIVE Rechunk(_, _, _)
Rechunk(rest, pending, tables) ==
    IF rest = <<>>
    THEN IF pending = <<>> THEN tables ELSE Append(tables, pending)
    ELSE LET q == Append(pending, Head(rest))
         IN  IF SumBytes(q) > batch_size
             THEN Rechunk(Tail(rest), <<>>, Append(tables, q))
             ELSE Rechunk(Tail(rest), q, tables)

ErrorFreeTables == Rechunk(NativeBatches, <<>>, <<>>)

\* the columns every table of the run is to have
RequestedColumns == IF columns.given THEN columns.names ELSE SourceSchema

\* the ways reading a file fails before its batches are all produced
ReadFailures == {"UnreadableFile", "TypeError"}

\* C11: the reader applies the requested projection to every source file it
\* opens, and every batch of every emitted table has exactly the requested
\* columns (all columns of the source when none is requested).
C11_Projection ==
    /\ \A f \in opened : read_schema[f] = RequestedColumns
    /\ \A k \in 1..Len(out[1]) : \A i \in 1..Len(out[1][k]) :
          read_schema[out[1][k][i][1]] = RequestedColumns

\* C12: a table of a budget flush, with its last batch removed, is within the
\* budget, and a batch above the budget that arrives at an empty buffer is
\* emitted alone.
C12_EarliestFlush ==
    \A k \in 1..Len(out[1]) :
        BudgetFlush(1, k) =>
            LET t == out[1][k]
            IN  /\ SumBytes(SubSeq(t, 1, Len(t) - 1)) <= batch_size
                /\ nbytes(t[1]) > batch_size => Len(t) = 1

\* an oversized batch was emitted alone, then a table of two batches
C12_Witness ==
    /\ pc[1] = "yielded" /\ Len(out[1]) = 2
    /\ Len(out[1][1]) = 1 /\ nbytes(out[1][1][1]) > batch_size
    /\ Len(out[1][2]) = 2

\* C13: when the caller keeps pulling, a started iteration reaches the drained
\* state, and once drained it emits no further table (stated for runs without
\* a column projection).
C13_ReachesDrained ==
    /\ (pc[1] = "created" /\ ~columns.given) ~> (pc[1] = "done")
    /\ [][pc[1] = "done" => out'[1] = out[1]]_vars

\* C14: when the reader fails, the caller has the tables the run without the
\* error emits up to that point and then the error; the batches pending in the
\* buffer are in no table.
C14_PrefixThenError ==
    pc[1] = "error" =>
        /\ err[1] # "none"
        /\ IsPrefix(out[1], ErrorFreeTables)
        /\ IsPrefix(Flatten(out[1]) \o queue, NativeBatches)
        /\ SumBytes(queue) <= batch_size
        /\ Range(queue) \cap Range(Flatten(out[1])) = {}

\* a file turned out unreadable after a table was emitted, with batches pending
C14_Witness ==
    /\ pc[1] = "error" /\ err[1] = "UnreadableFile"
    /\ Len(out[1]) >= 1 /\ queue # <<>>

\* C15: when reading a file fails before all its batches were produced, that
\* file still exists, no later file of the list was opened or deleted, and
\* every deleted file is an earlier one whose batches were all handed over.
C15_NoDeleteOnFailedRead ==
    (pc[1] = "error" /\ err[1] \in ReadFailures) =>
        /\ exists[self_files[fi[1]]]
        /\ \A j \in 1..Len(self_files) :
              /\ j > fi[1] => (exists[self_files[j]] /\ self_files[j] \notin opened)
              /\ ~exists[self_files[j]] =>
                    /\ j < fi[1]
                    /\ \A b \in 1..Len(files[self_files[j]].batches) :
                          Handed(<<self_files[j], b>>)

\* a destructive run deleted file 1 and failed in file 2 after its first batch
C15_Witness ==
    /\ destructive /\ pc[1] = "error" /\ err[1] = "UnreadableFile"
    /\ fi[1] = 2 /\ ~exists[1] /\ bi[1] >= 1

\* C16: while two iterations of one Ingester are under way, pulled in any
\* interleaving, each has emitted what it would have emitted running alone.
C16_ExclusiveBuffer ==
    (\A h \in Gens : pc[h] \in {"created", "running", "yielded"}) =>
        \A g \in Gens : IsPrefix(out[g], ErrorFreeTables)

\* C17: before the first pull no file is opened and no batch is read, and
\* whenever control is with the caller after a table, the batches read from
\* storage are exactly the batches of the tables emitted so far.
C17_NoPrefetch ==
    /\ pc[1] \in {"unborn", "created"} => (opened = {} /\ loaded = {})
    /\ pc[1] \in {"yielded", "final", "done"} => loaded = Range(Flatten(out[1]))

\* C18: ArrowIngester takes the files one after another in input order; a file
\* is closed, and in destructive mode deleted, after its last batch and before
\* the next file is opened, so between two files no handle is open, at most
\* one is open at any time, and deletions follow the input order.
C18_CloseBeforeNext ==
    (ingester = "ArrowIngester" /\ pc[1] # "error") =>
        /\ opened = {self_files[j] : j \in {i \in 1..Len(self_files) :
                                                i < fi[1] \/ (i = fi[1] /\ rd[1] = "reading")}}
        /\ \A j, k \in 1..Len(self_files) :
              (j < k /\ ~exists[self_files[k]]) => ~exists[self_files[j]]
        /\ Cardinality(handles[1]) <= 1
        /\ rd[1] = "idle" => handles[1] = {}
        /\ \A f \in handles[1] : exists[f]

\* C19: a second iteration of a non-destructive Ingester, begun after the
\* first was consumed to the end, emits the same tables as the first.
C19_Repeatable ==
    (~destructive /\ pc[1] = "done" /\ pc[2] = "done") => out[2] = out[1]

\* C20: every table emitted by an iteration of a freshly built Ingester holds
\* at least one batch.
C20_NoEmptyTable ==
    \A k \in 1..Len(out[1]) : Len(out[1][k]) >= 1

\* a run ended after a budget flush with nothing left for a final table
C20_Witness ==
    /\ pc[1] = "done" /\ queue = <<>> /\ Len(out[1]) >= 1
    /\ SumBytes(out[1][Len(out[1])]) > batch_size

====
